---- MODULE Spec2Model ----
(***************************************************************************)
(* A model of tiny-image-uploader's ImageProcessor (the class of           *)
(* src/unnamed/part_001, lines 72-371): the dimension computation of       *)
(* resizeImageIfNeeded, the progressive scaler stepDownImage, and the      *)
(* session (selectImage, resizeImage, cropImage, restoreOriginalImage,     *)
(* uploadImage) with every await as a suspension point.                    *)
(*                                                                         *)
(* JavaScript numbers are modelled as the IEEE 754 doubles they are: the   *)
(* code divides widths by heights, so the dimensions it computes are       *)
(* fractions, rounded to the nearest double by every operation.  The       *)
(* numbers of the model are finite and normal (no NaN, no infinity, no     *)
(* -0): the targets and sizes the code is run on are positive.             *)
(***************************************************************************)
EXTENDS Integers, Sequences, FiniteSets, TLC

VARIABLES
  rs,             \* one evaluation of resizeImageIfNeeded's dimension computation
  sd,             \* one run of stepDownImage
  maxFileSize,    \* this.maxFileSize  (0 models null: the constructor maps 0/undefined to null)
  maxWidth,       \* this.maxWidth     (0 models null)
  maxHeight,      \* this.maxHeight    (0 models null)
  originalImage,  \* this.originalImage
  selectedImage,  \* this.selectedImage
  originalMimeType, \* this.originalMimeType
  isLoading,      \* this._isLoading
  canvas,         \* this.canvas: its size and the image drawn on it
  calls,          \* the calls in flight: each one's position (pc) and locals
  nCalls,         \* how many calls have been made on the session
  ret,            \* how the call that last returned or settled ended
  hist            \* history: what selectImage left selected, and the calls made since

sessionVars == <<maxFileSize, maxWidth, maxHeight, originalImage, selectedImage,
                 originalMimeType, isLoading, canvas, calls, nCalls, ret, hist>>
vars == <<rs, sd, maxFileSize, maxWidth, maxHeight, originalImage, selectedImage,
          originalMimeType, isLoading, canvas, calls, nCalls, ret, hist>>

----------------------------------------------------------------------------
(* Bounds of the model. *)

\* source widths and heights of the scaler runs: 1..MaxSrc
MaxSrc == 6
\* widths and heights of the images of the resolver runs: 1..MaxImg
MaxImg == 4
\* numerators of the scaler's target sizes: 1..MaxNum
MaxNum == 5
\* denominators of the scaler's target sizes: 1..MaxDen
MaxDen == 3
\* requested resize targets of the resolver runs: 0..MaxTarget
MaxTarget == 5
\* configured maxWidth / maxHeight of the resolver runs: 0..MaxLimit
MaxLimit == 2
\* calls made on one session
MaxCalls == 3

----------------------------------------------------------------------------
(* JavaScript's numbers: IEEE 754 doubles.  A number is <<s, e, m>>: its    *)
(* sign s (1, -1, or 0 for the number 0), and for a number other than 0 its *)
(* value |x| = M * 2^e with a mantissa 2^52 <= M < 2^53 whose four          *)
(* base-2^14 digits are m, lowest first.  Every operation rounds its exact  *)
(* result to the nearest double, ties to the even mantissa.                 *)

Abs(x) == IF x < 0 THEN -x ELSE x
Min(x, y) == IF x <= y THEN x ELSE y
\* the largest element of a set of integers that has one
Largest[S \in SUBSET Int] == CHOOSE i \in S : \A j \in S : j <= i

Base == 16384
Pow2(n) == <<1, 2, 4, 8, 16, 32, 64, 128, 256, 512, 1024, 2048, 4096, 8192, 16384>>[n + 1]

\* A wide natural is nine base-2^14 digits, lowest first.
Wides == Seq(Int)
WZero == <<0, 0, 0, 0, 0, 0, 0, 0, 0>>
WOfInt(n) == <<n % Base, (n \div Base) % Base, n \div (Base * Base), 0, 0, 0, 0, 0, 0>>
WToInt[a \in Wides] == a[1] + Base * a[2] + Base * Base * a[3]
Wide(m) == <<m[1], m[2], m[3], m[4], 0, 0, 0, 0, 0>>
Digit(a, i) == IF i >= 1 /\ i <= 9 THEN a[i] ELSE 0
Digits(f) == <<f[1], f[2], f[3], f[4], f[5], f[6], f[7], f[8], f[9]>>

\* the digits from place i up of the natural that has f[j] in place j for
\* every j, when c is carried into place i
Carry[f \in Wides, i \in 1..10, c \in Int] ==
  IF i > 9 THEN <<>>
  ELSE <<(f[i] + c) % Base>> \o Carry[f, i + 1, (f[i] + c) \div Base]

WAdd[a \in Wides, b \in Wides] == Carry[Digits([i \in 1..9 |-> a[i] + b[i]]), 1, 0]

\* a - b for a >= b
WSub[a \in Wides, b \in Wides] == Carry[Digits([i \in 1..9 |-> a[i] - b[i]]), 1, 0]

\* a * k for a digit k
WTimes[a \in Wides, k \in Nat] == Carry[Digits([i \in 1..9 |-> a[i] * k]), 1, 0]

\* a * b for a, b of four digits
WMul[a \in Wides, b \in Wides] ==
  Carry[Digits([i \in 1..9 |-> a[1] * Digit(Wide(b), i) + a[2] * Digit(Wide(b), i - 1)
                               + a[3] * Digit(Wide(b), i - 2) + a[4] * Digit(Wide(b), i - 3)]),
        1, 0]

\* -1, 0, 1 as a <, =, > b
WCmp[a \in Wides, b \in Wides] ==
  LET differ == {i \in 1..9 : a[i] # b[i]}
  IN  IF differ = {} THEN 0
      ELSE IF a[Largest[differ]] < b[Largest[differ]] THEN -1 ELSE 1

\* the number of binary digits of a digit x
DigitBits[x \in Nat] == Cardinality({j \in 0..13 : Pow2(j) <= x})

\* the number of binary digits of a
WBits[a \in Wides] ==
  LET used == {i \in 1..9 : a[i] # 0}
  IN  IF used = {} THEN 0
      ELSE 14 * (Largest[used] - 1) + DigitBits[a[Largest[used]]]

\* a * 2^k
WShl[a \in Wides, k \in Nat] ==
  LET w == k \div 14
      p == Pow2(k % 14)
  IN  Digits([i \in 1..9 |-> ((Digit(a, i - w) * p) % Base)
                              + ((Digit(a, i - w - 1) * p) \div Base)])

\* a \div 2^k
WShr[a \in Wides, k \in Nat] ==
  LET w == k \div 14
      p == Pow2(k % 14)
  IN  Digits([i \in 1..9 |-> (Digit(a, i + w) \div p)
                              + ((Digit(a, i + w + 1) % p) * (Base \div p))])

\* a * Base
Up[a \in Wides] == <<0, a[1], a[2], a[3], a[4], a[5], a[6], a[7], a[8]>>

\* binary digit i of a (digit 0 is the lowest)
WBit[a \in Wides, i \in Nat] == (Digit(a, i \div 14 + 1) \div Pow2(i % 14)) % 2

\* whether the binary digits of a below digit i are all 0
WLowZero[a \in Wides, i \in Nat] ==
  /\ \A j \in 1..(i \div 14) : a[j] = 0
  /\ Digit(a, i \div 14 + 1) % Pow2(i % 14) = 0

\* A number is <<sign, exponent, mantissa>>.
Doubles == Int \X Int \X Seq(Int)
Zero == <<0, 0, <<0, 0, 0, 0>>>>

\* the double s * m * 2^e for 2^52 <= m <= 2^53
Double[s \in Int, m \in Wides, e \in Int] ==
  IF m[4] = 2048 THEN <<s, e + 1, <<0, 0, 0, 1024>>>>
  ELSE <<s, e, <<m[1], m[2], m[3], m[4]>>>>

\* the double nearest to s * n * 2^e for n of 53 + k binary digits: the
\* lowest k are cut off, and the rest goes up by one when they are more
\* than half of its unit, or just half and it is odd
RoundAt[s \in Int, n \in Wides, e \in Int, k \in Int] ==
  IF k <= 0 THEN Double[s, WShl[n, -k], e + k]
  ELSE IF WBit[n, k - 1] = 1 /\ (~WLowZero[n, k - 1] \/ WBit[n, k] = 1)
    THEN Double[s, WAdd[WShr[n, k], WOfInt(1)], e + k]
    ELSE Double[s, WShr[n, k], e + k]

\* the double nearest to s * n * 2^e, ties to the even mantissa
Round[s \in Int, n \in Wides, e \in Int] ==
  IF s = 0 \/ n = WZero THEN Zero ELSE RoundAt[s, n, e, WBits[n] - 53]

\* the numbers with the values 0 .. 64
SmallInts == [n \in 0..64 |-> Round[1, WOfInt(n), 0]]

QInt[n \in Int] ==
  IF n \in DOMAIN SmallInts THEN SmallInts[n]
  ELSE Round[IF n < 0 THEN -1 ELSE 1, WOfInt(Abs(n)), 0]

QMul[a \in Doubles, b \in Doubles] == Round[a[1] * b[1], WMul[a[3], b[3]], a[2] + b[2]]

\* the estimate of one digit of a quotient, made from the leading digits: d
\* has four digits, the highest at least Base / 2, and r < d * Base, so the
\* estimate is never below the digit
DivDigit[r \in Wides, d \in Wides] == Min((r[5] * Base + r[4]) \div d[4], Base - 1)

\* a division <<digits of the quotient so far (highest first), what is left>>
\* after its next digit: the largest digit up to q whose product with d fits
\* in what is left; p = d * q
DivStep[s \in Seq(Wides), d \in Wides, q \in Nat, p \in Wides] ==
  IF WCmp[p, s[2]] > 0 THEN DivStep[s, d, q - 1, WTimes[d, q - 1]]
  ELSE <<Append(s[1], q), Up[WSub[s[2], p]]>>

\* the division s by d after k more digits
LongDiv[s \in Seq(Wides), d \in Wides, k \in Nat] ==
  IF k = 0 THEN s
  ELSE LongDiv[DivStep[s, d, DivDigit[s[2], d], WTimes[d, DivDigit[s[2], d]]], d, k - 1]

\* twice the quotient of a division of five digits, plus one when something
\* is left
Sticky[s \in Seq(Wides)] ==
  WAdd[WTimes[<<s[1][5], s[1][4], s[1][3], s[1][2], s[1][1], 0, 0, 0, 0>>, 2],
       WOfInt(IF s[2] = WZero THEN 0 ELSE 1)]

QDiv[a \in Doubles, b \in Doubles] ==
  IF a[1] = 0 THEN Zero
  \* a power of two divides exactly: only the exponent changes
  ELSE IF b[3] = <<0, 0, 0, 1024>> THEN <<a[1] * b[1], a[2] - b[2] - 52, a[3]>>
  ELSE Round[a[1] * b[1],
             Sticky[LongDiv[<<<<>>, WShl[Wide(a[3]), 3]>>, WShl[Wide(b[3]), 3], 5]],
             a[2] - b[2] - 57]

Q[n \in Int, d \in Int] == QDiv[QInt[n], QInt[d]]

QNeg[a \in Doubles] == <<-a[1], a[2], a[3]>>
QAbs[a \in Doubles] == <<Abs(a[1]), a[2], a[3]>>

\* -1, 0, 1 as |a| <, =, > |b|
MagCmp[a \in Doubles, b \in Doubles] ==
  IF a[1] = 0 \/ b[1] = 0 THEN Abs(a[1]) - Abs(b[1])
  ELSE IF a[2] # b[2] THEN (IF a[2] < b[2] THEN -1 ELSE 1)
  ELSE WCmp[Wide(a[3]), Wide(b[3])]

QCmp[a \in Doubles, b \in Doubles] ==
  IF a[1] # b[1] THEN (IF a[1] < b[1] THEN -1 ELSE 1)
  ELSE a[1] * MagCmp[a, b]

QLe[a \in Doubles, b \in Doubles] == QCmp[a, b] <= 0
QLt[a \in Doubles, b \in Doubles] == QCmp[a, b] < 0
QMin[a \in Doubles, b \in Doubles] == IF QLe[a, b] THEN a ELSE b
QMax[a \in Doubles, b \in Doubles] == IF QLe[a, b] THEN b ELSE a

\* a + b for a, b # 0, |a| >= |b|: b is aligned with a; when it is more than
\* 60 binary digits below, all that matters is that it is not 0
AddOrdered[a \in Doubles, b \in Doubles] ==
  LET far == a[2] - b[2] > 60
      e == IF far THEN a[2] - 60 ELSE b[2]
  IN  Round[a[1],
            IF a[1] = b[1]
            THEN WAdd[WShl[Wide(a[3]), a[2] - e], IF far THEN WOfInt(1) ELSE Wide(b[3])]
            ELSE WSub[WShl[Wide(a[3]), a[2] - e], IF far THEN WOfInt(1) ELSE Wide(b[3])],
            e]

QAdd[a \in Doubles, b \in Doubles] ==
  IF a[1] = 0 THEN b
  ELSE IF b[1] = 0 THEN a
  ELSE IF MagCmp[a, b] >= 0 THEN AddOrdered[a, b] ELSE AddOrdered[b, a]

QSub[a \in Doubles, b \in Doubles] == QAdd[a, QNeg[b]]

QIsInt[a \in Doubles] ==
  a[1] = 0 \/ a[2] >= 0 \/ (a[2] > -53 /\ WLowZero[Wide(a[3]), -a[2]])

\* the integer part of |a| (a number below 2^31)
IntPart[a \in Doubles] ==
  IF a[1] = 0 \/ a[2] <= -53 THEN 0 ELSE WToInt[WShr[Wide(a[3]), -a[2]]]

QFloor[a \in Doubles] ==
  IF QIsInt[a] THEN a
  ELSE IF a[1] > 0 THEN QInt[IntPart[a]] ELSE QInt[-IntPart[a] - 1]

\* the integer a canvas keeps when its width or height is set to a number:
\* the fraction is cut off (toward zero), and a negative integer is replaced
\* by the default size of that side (300 wide, 150 high)
canvasSide(a, default) ==
  LET n == a[1] * IntPart[a]
  IN  IF n < 0 THEN default ELSE n

\* an optional number: <<>> is undefined, <<x>> is the number x
None == <<>>
Some(x) == <<x>>
\* JavaScript truthiness of an optional number: not undefined and not 0
Truthy(o) == o # None /\ o[1] # Zero

----------------------------------------------------------------------------
(* resizeImageIfNeeded: the dimensions it computes (lines 252-276).        *)
(* iw, ih: img.width, img.height; tw, th: options.width, options.height    *)
(* (optional numbers);   mar: maintainAspectRatio; maxW, maxH: the         *)
(* session's limits, 0 for null.                                           *)

\* the mutant of clampWidth that forgets to clamp
clampWidthNoClamp(d, aspectRatio, mar, maxW) == d

\* the mutant of clampWidth that recomputes the height under either policy
clampWidthAlwaysAspect(d, aspectRatio, mar, maxW) ==
  IF maxW # 0 /\ QLt[QInt[maxW], d[1]]
  THEN <<QInt[maxW], QDiv[QInt[maxW], aspectRatio]>>
  ELSE d

\* lines 269-272
clampWidth(d, aspectRatio, mar, maxW) ==
  IF maxW # 0 /\ QLt[QInt[maxW], d[1]]
  THEN <<QInt[maxW], IF mar THEN QDiv[QInt[maxW], aspectRatio] ELSE d[2]>>
  ELSE d

\* the mutant of clampHeight that leaves the width alone in aspect mode too
clampHeightKeepWidth(d, aspectRatio, mar, maxH) ==
  IF maxH # 0 /\ QLt[QInt[maxH], d[2]] THEN <<d[1], QInt[maxH]>> ELSE d

\* lines 273-276
clampHeight(d, aspectRatio, mar, maxH) ==
  IF maxH # 0 /\ QLt[QInt[maxH], d[2]]
  THEN <<IF mar THEN QMul[QInt[maxH], aspectRatio] ELSE d[1], QInt[maxH]>>
  ELSE d

\* lines 253-267: width and height before the clamps
requestedDims(iw, ih, tw, th, mar) ==
  LET width0 == IF Truthy(tw) THEN tw[1] ELSE QInt[iw]
      height0 == IF Truthy(th) THEN th[1] ELSE QInt[ih]
      aspectRatio == Q[iw, ih]
  IN  IF ~mar THEN <<width0, height0>>
      ELSE IF Truthy(tw) /\ Truthy(th)
        THEN LET ratio == QMin[QDiv[tw[1], QInt[iw]], QDiv[th[1], QInt[ih]]]
             IN  <<QMul[QInt[iw], ratio], QMul[QInt[ih], ratio]>>
      ELSE IF Truthy(tw) THEN <<width0, QDiv[tw[1], aspectRatio]>>
      ELSE IF Truthy(th) THEN <<QMul[th[1], aspectRatio], height0>>
      ELSE <<width0, height0>>

\* lines 252-276: <<width, height>> as they stand at line 277
resolveDims(iw, ih, tw, th, mar, maxW, maxH) ==
  LET aspectRatio == Q[iw, ih]
  IN  clampHeight(clampWidth(requestedDims(iw, ih, tw, th, mar),
                             aspectRatio, mar, maxW),
                  aspectRatio, mar, maxH)

\* line 278: whether stepDownImage is called
needsScale(iw, ih, d) ==
  \/ QLt[QInt[1], QAbs[QSub[d[1], QInt[iw]]]]
  \/ QLt[QInt[1], QAbs[QSub[d[2], QInt[ih]]]]

----------------------------------------------------------------------------
(* stepDownImage: one callback of requestAnimationFrame (lines 304-339).   *)

\* the mutant of reached that is content with one side at its target
reachedEither(cur, tw, th) == cur[1] = tw \/ cur[2] = th

\* line 332: the test that ends the stepping
reached(cur, tw, th) == cur[1] = tw /\ cur[2] = th

\* the mutant of stepDims that rounds the halves up (Math.ceil)
stepDimsCeil(cur, tw, th) ==
  LET ratioWidth == QDiv[cur[1], tw]
      ratioHeight == QDiv[cur[2], th]
      ratio == QMax[ratioWidth, ratioHeight]
      ceil(a) == IF QIsInt[a] THEN a ELSE QAdd[QFloor[a], QInt[1]]
  IN  IF QLe[ratio, QInt[2]]
      THEN <<tw, th>>
      ELSE <<QMax[ceil(QDiv[cur[1], QInt[2]]), tw],
             QMax[ceil(QDiv[cur[2], QInt[2]]), th]>>

\* the mutant of stepDims that rounds a half to the nearest integer
stepDimsRound(cur, tw, th) ==
  LET ratioWidth == QDiv[cur[1], tw]
      ratioHeight == QDiv[cur[2], th]
      ratio == QMax[ratioWidth, ratioHeight]
      round(a) == QFloor[QAdd[a, Q[1, 2]]]
  IN  IF QLe[ratio, QInt[2]]
      THEN <<tw, th>>
      ELSE <<QMax[round(QDiv[cur[1], QInt[2]]), tw],
             QMax[round(QDiv[cur[2], QInt[2]]), th]>>

\* the mutant of stepDims that resamples to the target in one step
stepDimsSnap(cur, tw, th) == <<tw, th>>

\* lines 305-315: currentWidth, currentHeight after one step
stepDims(cur, tw, th) ==
  LET ratioWidth == QDiv[cur[1], tw]
      ratioHeight == QDiv[cur[2], th]
      ratio == QMax[ratioWidth, ratioHeight]
  IN  IF QLe[ratio, QInt[2]]
      THEN <<tw, th>>
      ELSE <<QMax[QFloor[QDiv[cur[1], QInt[2]]], tw],
             QMax[QFloor[QDiv[cur[2], QInt[2]]], th]>>

\* lines 317-329: the size the working canvas has after a step
canvasDims(cur) == <<canvasSide(cur[1], 300), canvasSide(cur[2], 150)>>

\* lines 330-338: how a step ends once the canvas has its new size cv.
\* drawImage throws InvalidStateError for a source canvas with an empty side
\* ("threw": nothing is scheduled and the promise never settles); otherwise
\* the result image starts loading ("encode") or the next step is scheduled
framePc(cv, done) ==
  IF cv[1] = 0 \/ cv[2] = 0 THEN "threw"
  ELSE IF done THEN "encode" ELSE "raf"

----------------------------------------------------------------------------
(* The resolver on its own: Init draws one img and one options object, and *)
(* Resolve applies lines 252-278 to them.                                  *)

Targets == {None} \cup {Some(QInt[n]) : n \in 0..MaxTarget}

rsIdle == [pc |-> "idle"]
sdIdle == [pc |-> "idle"]

\* null, for originalImage, selectedImage and the canvas's content
NoImage == [null |-> TRUE]
\* null, for originalMimeType
NoMime == ""

\* lines 73-76 and 87: the fields of a new ImageProcessor; a new canvas is
\* 300 x 150 and blank.  canvas.img is the image whose pixels the canvas
\* shows; canvas.raw tells that they were put there as pixel data that img
\* was then encoded from (lines 168-171), not drawn from the decoded img
SessionEmpty ==
  /\ originalImage = NoImage /\ selectedImage = NoImage
  /\ originalMimeType = NoMime /\ isLoading = FALSE
  /\ canvas = [w |-> 300, h |-> 150, img |-> NoImage, raw |-> FALSE]
  /\ calls = {} /\ nCalls = 0 /\ ret = [op |-> "none", result |-> "none"]
  /\ hist = [loaded |-> NoImage, since |-> "none"]

\* requests whose dimensions are no exact doubles: 55 * (3 / 11),
\* 11 * (15 / 11) and 7 * (61 / 7) fall just short of 15, 15 and 61
RoundedRuns ==
  { [iw |-> 3, ih |-> 11, tw |-> None, th |-> Some(QInt[55])],
    [iw |-> 11, ih |-> 11, tw |-> Some(QInt[15]), th |-> Some(QInt[1000])],
    [iw |-> 7, ih |-> 7, tw |-> Some(QInt[61]), th |-> Some(QInt[1000])] }

InitResolve ==
  /\ \/ rs \in [pc : {"in"}, iw : 1..MaxImg, ih : 1..MaxImg, tw : Targets, th : Targets,
                mar : BOOLEAN, maxW : 0..MaxLimit, maxH : 0..MaxLimit,
                d : {<<QInt[0], QInt[0]>>}, scale : {FALSE}]
     \/ \E r \in RoundedRuns :
          rs = [pc |-> "in", iw |-> r.iw, ih |-> r.ih, tw |-> r.tw, th |-> r.th,
                mar |-> TRUE, maxW |-> 0, maxH |-> 0,
                d |-> <<QInt[0], QInt[0]>>, scale |-> FALSE]
  /\ sd = sdIdle
  /\ maxFileSize = 0 /\ maxWidth = 0 /\ maxHeight = 0
  /\ SessionEmpty

Resolve ==
  /\ rs.pc = "in"
  /\ LET d == resolveDims(rs.iw, rs.ih, rs.tw, rs.th, rs.mar, rs.maxW, rs.maxH)
     IN  rs' = [rs EXCEPT !.pc = "out", !.d = d, !.scale = needsScale(rs.iw, rs.ih, d)]
  /\ UNCHANGED <<sd, sessionVars>>

NextResolve == Resolve

SpecResolve == InitResolve /\ [][NextResolve]_vars

----------------------------------------------------------------------------
(* The scaler on its own: Init draws a source size and a target size, and  *)
(* each StepFrame is one requestAnimationFrame callback of stepDownImage.  *)

TargetSizes == {Q[n, d] : n \in 1..MaxNum, d \in 1..MaxDen}

\* a large picture scaled far down: 4000 x 3000 to 100 x 100
ExampleRun == [iw |-> 4000, ih |-> 3000, tw |-> QInt[100], th |-> QInt[100]]

InitScale ==
  /\ \E iw \in 1..MaxSrc, ih \in 1..MaxSrc, tw \in TargetSizes, th \in TargetSizes :
       \E r \in {[iw |-> iw, ih |-> ih, tw |-> tw, th |-> th], ExampleRun} :
         \* lines 291-302: the stepping starts from the source's size
         sd = [pc |-> "raf", iw |-> r.iw, ih |-> r.ih, tw |-> r.tw, th |-> r.th,
               cur |-> <<QInt[r.iw], QInt[r.ih]>>, cv |-> <<r.iw, r.ih>>, out |-> <<>>]
  /\ rs = rsIdle
  /\ maxFileSize = 0 /\ maxWidth = 0 /\ maxHeight = 0
  /\ SessionEmpty

\* lines 304-339: one step; it throws, starts loading the result image or
\* schedules the next step
StepFrame ==
  /\ sd.pc = "raf"
  /\ \E cur \in {stepDims(sd.cur, sd.tw, sd.th)} :
       \E cv \in {canvasDims(cur)} :
         sd' = [sd EXCEPT !.cur = cur, !.cv = cv,
                          !.pc = framePc(cv, reached(cur, sd.tw, sd.th))]
  /\ UNCHANGED <<rs, sessionVars>>

\* line 334: result.onload resolves the promise with the image decoded from
\* the canvas
ResultLoaded ==
  /\ sd.pc = "encode"
  /\ sd' = [sd EXCEPT !.pc = "done", !.out = sd.cv]
  /\ UNCHANGED <<rs, sessionVars>>

NextScale == StepFrame \/ ResultLoaded

\* lines 251-283: resizeImageIfNeeded as a whole.  It computes the dimensions
\* and either returns img itself (line 282) or starts stepDownImage on them
\* (lines 278-280, 291-302)
ResizeIfNeeded ==
  /\ rs.pc = "in"
  /\ LET d == resolveDims(rs.iw, rs.ih, rs.tw, rs.th, rs.mar, rs.maxW, rs.maxH)
         scale == needsScale(rs.iw, rs.ih, d)
     IN  /\ rs' = [rs EXCEPT !.pc = "out", !.d = d, !.scale = scale]
         /\ sd' = IF scale
                  THEN [pc |-> "raf", iw |-> rs.iw, ih |-> rs.ih, tw |-> d[1], th |-> d[2],
                        cur |-> <<QInt[rs.iw], QInt[rs.ih]>>, cv |-> <<rs.iw, rs.ih>>,
                        out |-> <<>>]
                  ELSE [pc |-> "done", iw |-> rs.iw, ih |-> rs.ih, tw |-> d[1], th |-> d[2],
                        cur |-> <<QInt[rs.iw], QInt[rs.ih]>>, cv |-> <<rs.iw, rs.ih>>,
                        out |-> <<rs.iw, rs.ih>>]
  /\ UNCHANGED sessionVars

NextResize == ResizeIfNeeded \/ StepFrame \/ ResultLoaded

\* the resolver and the scaler together: Init draws img and the options,
\* the run ends with the image resizeImageIfNeeded resolves to
SpecResize == InitResolve /\ [][NextResize]_vars

SpecScale == InitScale /\ [][NextScale]_vars

\* requestAnimationFrame runs every callback it was given, and the data URL
\* a canvas encoded loads
SpecScaleFair ==
  InitScale /\ [][NextScale]_vars /\ WF_vars(StepFrame) /\ WF_vars(ResultLoaded)

----------------------------------------------------------------------------
(* The session.  A call is a record in `calls` from the moment it suspends *)
(* at an await until it settles; every action below is one task of the     *)
(* event loop: a call up to its first suspension, or the callback that     *)
(* resumes a suspended call up to its next suspension.  A call that awaits  *)
(* a promise that is already settled is resumed in a microtask: before any  *)
(* other task, after the calls made before it in the same task.             *)

\* the files the picker can deliver: name, size in bytes, mime type and the
\* size of the picture in the file
Files ==
  { [name |-> "a", size |-> 1, type |-> "image/png", w |-> 16, h |-> 8],
    [name |-> "b", size |-> 2, type |-> "image/jpeg", w |-> 3, h |-> 5],
    [name |-> "c", size |-> 3, type |-> "image/gif", w |-> 2, h |-> 2] }

\* the options objects the sessions are constructed with (0: not given)
Configs ==
  { [maxFileSize |-> 0, maxWidth |-> 0, maxHeight |-> 0],
    [maxFileSize |-> 2, maxWidth |-> 4, maxHeight |-> 3] }

\* the arguments resizeImage is called with
ResizeArgs ==
  { [width |-> None, height |-> None, mar |-> FALSE],
    [width |-> None, height |-> None, mar |-> TRUE],
    [width |-> Some(QInt[2]), height |-> None, mar |-> FALSE],
    [width |-> None, height |-> Some(QInt[1]), mar |-> TRUE] }

\* the arguments cropImage is called with
CropArgs ==
  { [top |-> 0, left |-> 0, width |-> 2, height |-> 2],
    [top |-> 1, left |-> 1, width |-> 9, height |-> 9] }

MutatingOps == {"select", "resize", "crop", "restore"}

\* an Image element: the file its pixels derive from, its size, the format
\* of its data URL and the transformations that changed its pixels since the
\* file was decoded
decodedImage(f) ==
  [file |-> f.name, w |-> f.w, h |-> f.h, fmt |-> f.type, edits |-> <<>>]

\* the mutant of encodeMime that always asks for the default type
encodeMimeDefault(mime) == "image/jpeg"

\* lines 171, 213, 335: this.originalMimeType || 'image/jpeg'
encodeMime(mime) == IF mime = NoMime THEN "image/jpeg" ELSE mime

\* lines 171, 335: the format canvas.toDataURL(type) encodes in: the type
\* asked for if the canvas can encode it, image/png otherwise
canvasFormat(type) ==
  IF type \in {"image/png", "image/jpeg", "image/webp"} THEN type ELSE "image/png"

\* whether encoding in a format can change the pixels
lossy(fmt) == fmt \in {"image/jpeg", "image/webp"}

\* lines 170-172: whether the image decoded from the canvas's encoding has the
\* pixels the canvas held.  A lossless format keeps them, and so does encoding
\* again the pixel data an earlier crop was encoded from; image/jpeg and
\* image/webp keep the pixels of some pictures and change those of others
encodingKeeps(fmt, raw) ==
  IF raw \/ ~lossy(fmt) THEN {TRUE} ELSE {TRUE, FALSE}

\* the mutant of scaledImage in which line 335 resolves with the result image
\* at once instead of in its onload (line 334): an image that has not loaded
\* yet has width 0 and height 0
scaledImageUnloaded(img, cv, enc) ==
  [file |-> img.file, w |-> 0, h |-> 0, fmt |-> canvasFormat(enc),
   edits |-> Append(img.edits, <<"scale", cv[1], cv[2]>>)]

\* lines 333-335: the image decoded from the scaler's canvas
scaledImage(img, cv, enc) ==
  [file |-> img.file, w |-> cv[1], h |-> cv[2], fmt |-> canvasFormat(enc),
   edits |-> Append(img.edits, <<"scale", cv[1], cv[2]>>)]

\* the mutant of isValidFileSize that accepts every file
isValidFileSizeAlways(size, limit) == TRUE

\* lines 247-249
isValidFileSize(size, limit) == IF limit # 0 THEN size <= limit ELSE TRUE

\* lines 345-357: the canvas after resetCanvas(), given this.selectedImage
resetCanvas(sel, cv) ==
  IF sel # NoImage THEN [w |-> sel.w, h |-> sel.h, img |-> sel, raw |-> FALSE] ELSE cv

\* lines 291-302: the locals of a stepDownImage run on img toward d
scalerLocals(img, d) ==
  [img |-> img, tgt |-> d, cur |-> <<QInt[img.w], QInt[img.h]>>,
   cv |-> <<img.w, img.h>>, enc |-> NoMime]

InitSession ==
  /\ rs = rsIdle /\ sd = sdIdle
  \* lines 83-86
  /\ \E c \in Configs :
       /\ maxFileSize = c.maxFileSize
       /\ maxWidth = c.maxWidth
       /\ maxHeight = c.maxHeight
  /\ SessionEmpty

config == <<rs, sd, maxFileSize, maxWidth, maxHeight>>

Settle(op, result) == ret' = [op |-> op, result |-> result]

\* The history of the session's use.  hist.loaded is the image selectedImage
\* held when the last successful selectImage returned; hist.since tells which
\* calls were made since then: "edits" (none but resizeImage and cropImage),
\* "restoring" (those, then one restoreOriginalImage), "other" (anything else).
Called(op) ==
  hist' = [hist EXCEPT !.since =
             IF op \in {"resize", "crop"} /\ hist.since = "edits" THEN "edits"
             ELSE IF op = "restore" /\ hist.since = "edits" THEN "restoring"
             ELSE IF hist.since = "none" THEN "none"
             ELSE "other"]

\* lines 138, 146 and 159: the calls suspended at an await of a settled
\* promise (resizeImageIfNeeded returning img itself; resetCanvas), and line
\* 199: the uploads whose uploadFunction promise has settled; each is resumed
\* by a microtask, and q is its place in the microtask queue
Microtasks == {t \in calls : t.pc \in {"resume", "redrawn", "reset", "settling"}}

\* the place behind the microtasks in `queued`
Behind(queued) ==
  IF queued = {} THEN 1
  ELSE 1 + (CHOOSE n \in {t.q : t \in queued} : \A t \in queued : t.q <= n)

\* the microtask that runs next: they run in the order they were queued
FirstMicrotask(t) == t \in Microtasks /\ \A u \in Microtasks : t.q <= u.q

\* a task (a callback of a file input, reader, image, animation frame or
\* blob) starts only when no microtask is left
TaskTurn == Microtasks = {}

\* ---- selectImage (lines 95-110) ----

\* lines 96-98: the call up to `await this._selectImageFile()`
SelectCall ==
  /\ Called("select")
  /\ nCalls < MaxCalls
  /\ nCalls' = nCalls + 1
  /\ isLoading' = TRUE
  /\ calls' = calls \cup {[id |-> nCalls + 1, op |-> "select", pc |-> "pick"]}
  /\ UNCHANGED <<config, originalImage, selectedImage, originalMimeType, canvas, ret>>

\* lines 226-229, 99, 104-109 and 235-243: input.onchange delivers a file.
\* Too large a file: the call throws and `finally` clears _isLoading.
\* Otherwise loadImage starts the FileReader.
FilePicked(t, f) ==
  /\ UNCHANGED hist
  /\ TaskTurn /\ t \in calls /\ t.op = "select" /\ t.pc = "pick"
  /\ IF isValidFileSize(f.size, maxFileSize)
     THEN /\ calls' = (calls \ {t}) \cup {[id |-> t.id, op |-> "select", pc |-> "read", file |-> f]}
          /\ UNCHANGED <<isLoading, ret>>
     ELSE /\ calls' = calls \ {t}
          /\ isLoading' = FALSE
          /\ Settle("select", "FileTooLarge")
  /\ UNCHANGED <<config, originalImage, selectedImage, originalMimeType, canvas, nCalls>>

\* lines 221-231: the picker is closed without a file: the input fires no
\* change event (or one without a file), the promise of _selectImageFile
\* never settles and the call stays suspended at line 99 for good
PickerDismissed(t) ==
  /\ UNCHANGED hist
  /\ TaskTurn /\ t \in calls /\ t.op = "select" /\ t.pc = "pick"
  /\ calls' = (calls \ {t}) \cup {[t EXCEPT !.pc = "hung"]}
  /\ UNCHANGED <<config, originalImage, selectedImage, originalMimeType, isLoading,
                 canvas, nCalls, ret>>

\* lines 235-243: the reader fails to read the file; it has no onerror
\* handler, loadImage's promise never settles and the call stays suspended at
\* line 100 for good
ReadFailed(t) ==
  /\ UNCHANGED hist
  /\ TaskTurn /\ t \in calls /\ t.op = "select" /\ t.pc = "read"
  /\ calls' = (calls \ {t}) \cup {[t EXCEPT !.pc = "hung"]}
  /\ UNCHANGED <<config, originalImage, selectedImage, originalMimeType, isLoading,
                 canvas, nCalls, ret>>

\* lines 237-238: reader.onload starts decoding the data URL (createImage)
ReaderLoaded(t) ==
  /\ UNCHANGED hist
  /\ TaskTurn /\ t \in calls /\ t.op = "select" /\ t.pc = "read"
  /\ calls' = (calls \ {t}) \cup {[t EXCEPT !.pc = "decode"]}
  /\ UNCHANGED <<config, originalImage, selectedImage, originalMimeType, isLoading,
                 canvas, nCalls, ret>>

\* lines 239-241 and 100-101: the file's image has loaded.  loadImage records
\* the mime type and resolves the dimensions (maintainAspectRatio, no target).
\* If no scaling is needed the image is selected at once and its clone is
\* started; otherwise stepDownImage is started.
ImageDecoded(t) ==
  /\ UNCHANGED hist
  /\ TaskTurn /\ t \in calls /\ t.op = "select" /\ t.pc = "decode"
  /\ originalMimeType' = t.file.type
  /\ LET img == decodedImage(t.file)
         d == resolveDims(img.w, img.h, None, None, TRUE, maxWidth, maxHeight)
     IN  IF needsScale(img.w, img.h, d)
         THEN /\ calls' = (calls \ {t}) \cup
                   {[id |-> t.id, op |-> "select", pc |-> "raf", file |-> t.file,
                     sc |-> scalerLocals(img, d)]}
              /\ UNCHANGED selectedImage
         ELSE /\ selectedImage' = img
              /\ calls' = (calls \ {t}) \cup
                   {[id |-> t.id, op |-> "select", pc |-> "clone", file |-> t.file,
                     src |-> img]}
  /\ UNCHANGED <<config, originalImage, isLoading, canvas, nCalls, ret>>

\* lines 237-238 and 367: the file's data does not decode, createImage
\* rejects.  The rejection is raised inside the reader's async onload and
\* nothing catches it: loadImage's promise never settles and the call stays
\* suspended at line 100 for good.
DecodeFailed(t) ==
  /\ UNCHANGED hist
  /\ TaskTurn /\ t \in calls /\ t.op = "select" /\ t.pc = "decode"
  /\ calls' = (calls \ {t}) \cup {[t EXCEPT !.pc = "hung"]}
  /\ UNCHANGED <<config, originalImage, selectedImage, originalMimeType, isLoading,
                 canvas, nCalls, ret>>

\* lines 101, 367 and 107-109: the clone does not load, cloneImage rejects;
\* selectImage throws out of line 101 and `finally` clears _isLoading
SelectCloneFailed(t) ==
  /\ hist' = [hist EXCEPT !.since = IF hist.since = "none" THEN "none" ELSE "other"]
  /\ TaskTurn /\ t \in calls /\ t.op = "select" /\ t.pc = "clone"
  /\ isLoading' = FALSE
  /\ calls' = calls \ {t}
  /\ Settle("select", "DecodeError")
  /\ UNCHANGED <<config, originalImage, selectedImage, originalMimeType, canvas, nCalls>>

\* lines 101-103 and 107-109: the clone has loaded; it becomes the original,
\* the canvas is redrawn and `finally` clears _isLoading
SelectCloneLoaded(t) ==
  /\ hist' = [loaded |-> selectedImage, since |-> "edits"]
  /\ TaskTurn /\ t \in calls /\ t.op = "select" /\ t.pc = "clone"
  /\ originalImage' = t.src
  /\ canvas' = resetCanvas(selectedImage, canvas)
  /\ isLoading' = FALSE
  /\ calls' = calls \ {t}
  /\ Settle("select", "ok")
  /\ UNCHANGED <<config, selectedImage, originalMimeType, nCalls>>

\* ---- stepDownImage inside a call (lines 285-343) ----

\* lines 304-339: one requestAnimationFrame callback of a select or resize
\* call's scaler; when it throws the call stays suspended for good
CallStepFrame(t) ==
  /\ UNCHANGED hist
  /\ TaskTurn /\ t \in calls /\ t.pc = "raf"
  /\ \E cur \in {stepDims(t.sc.cur, t.sc.tgt[1], t.sc.tgt[2])} :
       \E cv \in {canvasDims(cur)} :
         \E pc \in {framePc(cv, reached(cur, t.sc.tgt[1], t.sc.tgt[2]))} :
           calls' = (calls \ {t}) \cup
             {[t EXCEPT !.pc = pc,
                        !.sc = [t.sc EXCEPT !.cur = cur, !.cv = cv,
                                            !.enc = IF pc = "encode"
                                                    THEN encodeMime(originalMimeType)
                                                    ELSE NoMime]]}
  /\ UNCHANGED <<config, originalImage, selectedImage, originalMimeType, isLoading,
                 canvas, nCalls, ret>>

\* line 334, then lines 241 and 100-101: the scaled image of a selectImage
\* has loaded; it is selected and its clone is started
SelectScaled(t) ==
  /\ UNCHANGED hist
  /\ TaskTurn /\ t \in calls /\ t.op = "select" /\ t.pc = "encode"
  /\ LET img == scaledImage(t.sc.img, t.sc.cv, t.sc.enc)
     IN  /\ selectedImage' = img
         /\ calls' = (calls \ {t}) \cup
              {[id |-> t.id, op |-> "select", pc |-> "clone", file |-> t.file, src |-> img]}
  /\ UNCHANGED <<config, originalImage, originalMimeType, isLoading, canvas, nCalls, ret>>

\* the mutant of ResizeScaled that also stores the scaled image as the original
ResizeScaledWritingOriginal(t) ==
  /\ UNCHANGED hist
  /\ TaskTurn /\ t \in calls /\ t.op = "resize" /\ t.pc = "encode"
  /\ LET img == scaledImage(t.sc.img, t.sc.cv, t.sc.enc)
     IN  /\ selectedImage' = img
         /\ originalImage' = img
         /\ canvas' = resetCanvas(img, canvas)
  /\ calls' = calls \ {t}
  /\ Settle("resize", "src")
  /\ UNCHANGED <<config, originalMimeType, isLoading, nCalls>>

\* line 334, then lines 145-147: the scaled image of a resizeImage has loaded
ResizeScaled(t) ==
  /\ UNCHANGED hist
  /\ TaskTurn /\ t \in calls /\ t.op = "resize" /\ t.pc = "encode"
  /\ LET img == scaledImage(t.sc.img, t.sc.cv, t.sc.enc)
     IN  /\ selectedImage' = img
         /\ canvas' = resetCanvas(img, canvas)
  /\ calls' = calls \ {t}
  /\ Settle("resize", "src")
  /\ UNCHANGED <<config, originalImage, originalMimeType, isLoading, nCalls>>

\* ---- resizeImage (lines 116-148) ----

\* the mutant of resizeRejection that does not look at _isLoading
resizeRejectionIgnoringLoading(sel, loading, a) ==
  IF sel = NoImage THEN "null"
  ELSE IF a.width = None /\ a.height = None THEN "InvalidArguments"
  ELSE "none"

\* the mutant of resizeRejection that checks the arguments first
resizeRejectionArgsFirst(sel, loading, a) ==
  IF a.width = None /\ a.height = None THEN "InvalidArguments"
  ELSE IF sel = NoImage THEN "null"
  ELSE IF loading THEN "null"
  ELSE "none"

\* lines 121-132: how the call ends before it does anything: "null" (it
\* returns null), "InvalidArguments" (it throws), or "none" (it goes on)
resizeRejection(sel, loading, a) ==
  IF sel = NoImage THEN "null"
  ELSE IF loading THEN "null"
  ELSE IF a.width = None /\ a.height = None THEN "InvalidArguments"
  ELSE "none"

\* lines 116-138: the call up to `await this.resizeImageIfNeeded(...)`.  When
\* resizeImageIfNeeded returns the image itself the call resumes in a
\* microtask, otherwise when the scaler's result has loaded.
ResizeCall(a) ==
  /\ Called("resize")
  /\ nCalls < MaxCalls
  /\ nCalls' = nCalls + 1
  /\ LET rej == resizeRejection(selectedImage, isLoading, a)
     IN  IF rej # "none"
         THEN /\ Settle("resize", rej)
              /\ UNCHANGED <<selectedImage, canvas, calls>>
         ELSE LET sel == selectedImage
                  targetWidth == IF a.width # None THEN a.width ELSE Some(QInt[sel.w])
                  targetHeight == IF a.height # None THEN a.height ELSE Some(QInt[sel.h])
                  d == resolveDims(sel.w, sel.h, targetWidth, targetHeight, a.mar,
                                   maxWidth, maxHeight)
              IN  IF needsScale(sel.w, sel.h, d)
                  THEN /\ calls' = calls \cup
                            {[id |-> nCalls + 1, op |-> "resize", pc |-> "raf",
                              sc |-> scalerLocals(sel, d)]}
                       /\ UNCHANGED <<selectedImage, canvas, ret>>
                  ELSE /\ calls' = calls \cup
                            {[id |-> nCalls + 1, op |-> "resize", pc |-> "resume",
                              src |-> sel, q |-> Behind(Microtasks)]}
                       /\ UNCHANGED <<selectedImage, canvas, ret>>
  /\ UNCHANGED <<config, originalImage, originalMimeType, isLoading>>

\* lines 138 and 145-146: resizeImageIfNeeded has returned the image itself;
\* the call stores it, redraws the canvas and suspends at
\* `await this.resetCanvas()`
ResizeResume(t) ==
  /\ UNCHANGED hist
  /\ FirstMicrotask(t) /\ t.op = "resize" /\ t.pc = "resume"
  /\ selectedImage' = t.src
  /\ canvas' = resetCanvas(t.src, canvas)
  /\ calls' = (calls \ {t}) \cup
       {[id |-> t.id, op |-> "resize", pc |-> "redrawn",
         q |-> Behind(Microtasks \ {t})]}
  /\ UNCHANGED <<config, originalImage, originalMimeType, isLoading, nCalls, ret>>

\* lines 146-147: the call returns selectedImage.src
ResizeReturn(t) ==
  /\ UNCHANGED hist
  /\ FirstMicrotask(t) /\ t.op = "resize" /\ t.pc = "redrawn"
  /\ calls' = calls \ {t}
  /\ Settle("resize", "src")
  /\ UNCHANGED <<config, originalImage, selectedImage, originalMimeType, isLoading,
                 canvas, nCalls>>

\* ---- cropImage (lines 150-179) ----

\* lines 151-157
cropRejection(sel, loading) ==
  IF sel = NoImage THEN "NoImageSelected"
  ELSE IF loading THEN "StillLoading"
  ELSE "none"

\* the mutant of cropSize that does not clamp the region to the picture
cropSizeUnclamped(sel, a) == <<a.width, a.height>>

\* lines 161-162
cropSize(sel, a) ==
  <<IF a.width <= sel.w - a.left THEN a.width ELSE sel.w - a.left,
    IF a.height <= sel.h - a.top THEN a.height ELSE sel.h - a.top>>

\* lines 166-167: the canvas size after it is set to the crop size: a canvas
\* set to a negative width or height takes its default, 300 or 150
cropCanvasSize(cs) ==
  <<canvasSide(QInt[cs[1]], 300), canvasSide(QInt[cs[2]], 150)>>

\* lines 150-159: the call up to `await this.resetCanvas()`, which has drawn
\* selectedImage on the session's canvas
CropCall(a) ==
  /\ Called("crop")
  /\ nCalls < MaxCalls
  /\ nCalls' = nCalls + 1
  /\ LET rej == cropRejection(selectedImage, isLoading)
     IN  IF rej # "none"
         THEN /\ Settle("crop", rej)
              /\ UNCHANGED <<canvas, calls>>
         ELSE /\ canvas' = resetCanvas(selectedImage, canvas)
              /\ calls' = calls \cup
                   {[id |-> nCalls + 1, op |-> "crop", pc |-> "reset", a |-> a,
                     q |-> Behind(Microtasks)]}
              /\ UNCHANGED ret
  /\ UNCHANGED <<config, originalImage, selectedImage, originalMimeType, isLoading>>

\* lines 161-172: the call from the await of resetCanvas up to
\* `await this.createImage(...)`.  The crop size is measured on selectedImage,
\* the pixels are read from the canvas, whatever it holds by now.
\* getImageData throws for a region with an empty side.  The pixels of the
\* cropped image are those of the region, encoded.  A region that is all of
\* the canvas gives the picture the canvas shows when the encoding changes
\* nothing: the format is lossless, or the canvas holds the very pixel data
\* an earlier crop was encoded from, and encoding them again gives that crop;
\* in image/jpeg and image/webp the encoder keeps some pictures and not others.
\* Afterwards the canvas holds the region's pixel data.  `from` keeps the
\* image the crop was measured on.
CropResume(t) ==
  /\ UNCHANGED hist
  /\ FirstMicrotask(t) /\ t.op = "crop" /\ t.pc = "reset"
  /\ LET a == t.a
         sel == selectedImage
         drawn == canvas.img
         cs == cropSize(sel, a)
         cv == cropCanvasSize(cs)
         fmt == canvasFormat(encodeMime(originalMimeType))
         fullFrame == a.left = 0 /\ a.top = 0 /\ cs[1] = canvas.w /\ cs[2] = canvas.h
         cropped(keeps) ==
           [file |-> drawn.file, w |-> cv[1], h |-> cv[2], fmt |-> fmt,
            edits |-> IF fullFrame /\ keeps THEN drawn.edits
                      ELSE Append(drawn.edits,
                                  <<"crop", a.left, a.top, cs[1], cs[2]>>)]
     IN  IF cs[1] = 0 \/ cs[2] = 0
         THEN /\ calls' = calls \ {t}
              /\ Settle("crop", "IndexSizeError")
              /\ UNCHANGED canvas
         ELSE \E keeps \in encodingKeeps(fmt, canvas.raw) :
              /\ canvas' = [w |-> cv[1], h |-> cv[2], img |-> cropped(keeps),
                            raw |-> TRUE]
              /\ calls' = (calls \ {t}) \cup
                   {[id |-> t.id, op |-> "crop", pc |-> "decode",
                     src |-> cropped(keeps), from |-> sel]}
              /\ UNCHANGED ret
  /\ UNCHANGED <<config, originalImage, selectedImage, originalMimeType, isLoading,
                 nCalls>>

\* lines 170-178: the cropped image has loaded
CropLoaded(t) ==
  /\ UNCHANGED hist
  /\ TaskTurn /\ t \in calls /\ t.op = "crop" /\ t.pc = "decode"
  /\ selectedImage' = t.src
  /\ canvas' = resetCanvas(t.src, canvas)
  /\ calls' = calls \ {t}
  /\ Settle("crop", "src")
  /\ UNCHANGED <<config, originalImage, originalMimeType, isLoading, nCalls>>

\* lines 170-172 and 367: the cropped image does not load, createImage
\* rejects and cropImage throws; the canvas keeps the crop
CropDecodeFailed(t) ==
  /\ UNCHANGED hist
  /\ TaskTurn /\ t \in calls /\ t.op = "crop" /\ t.pc = "decode"
  /\ calls' = calls \ {t}
  /\ Settle("crop", "DecodeError")
  /\ UNCHANGED <<config, originalImage, selectedImage, originalMimeType, isLoading,
                 canvas, nCalls>>

\* ---- restoreOriginalImage (lines 181-189) ----

\* lines 182-186: the call up to `await this.cloneImage(this.originalImage)`
RestoreCall ==
  /\ Called("restore")
  /\ nCalls < MaxCalls
  /\ nCalls' = nCalls + 1
  /\ IF originalImage = NoImage
     THEN /\ Settle("restore", "null")
          /\ UNCHANGED calls
     ELSE /\ calls' = calls \cup
               {[id |-> nCalls + 1, op |-> "restore", pc |-> "clone", src |-> originalImage]}
          /\ UNCHANGED ret
  /\ UNCHANGED <<config, originalImage, selectedImage, originalMimeType, isLoading, canvas>>

\* lines 186-188: the clone has loaded
RestoreLoaded(t) ==
  /\ hist' = [hist EXCEPT !.since = IF hist.since = "none" THEN "none" ELSE "other"]
  /\ TaskTurn /\ t \in calls /\ t.op = "restore" /\ t.pc = "clone"
  /\ selectedImage' = t.src
  /\ canvas' = resetCanvas(t.src, canvas)
  /\ calls' = calls \ {t}
  /\ Settle("restore", "src")
  /\ UNCHANGED <<config, originalImage, originalMimeType, isLoading, nCalls>>

\* lines 186 and 367: the clone does not load, restoreOriginalImage throws
RestoreCloneFailed(t) ==
  /\ UNCHANGED hist
  /\ TaskTurn /\ t \in calls /\ t.op = "restore" /\ t.pc = "clone"
  /\ calls' = calls \ {t}
  /\ Settle("restore", "DecodeError")
  /\ UNCHANGED <<config, originalImage, selectedImage, originalMimeType, isLoading,
                 canvas, nCalls>>

\* ---- uploadImage (lines 191-215) ----

\* lines 192-196 and 203-213: the call up to the toBlob callback
UploadCall ==
  /\ Called("upload")
  /\ nCalls < MaxCalls
  /\ nCalls' = nCalls + 1
  /\ IF selectedImage = NoImage
     THEN /\ Settle("upload", "NoImageSelected")
          /\ UNCHANGED <<canvas, calls>>
     ELSE /\ canvas' = [w |-> selectedImage.w, h |-> selectedImage.h,
                         img |-> selectedImage, raw |-> FALSE]
          /\ calls' = calls \cup
               {[id |-> nCalls + 1, op |-> "upload", pc |-> "blob", src |-> selectedImage]}
          /\ UNCHANGED ret
  /\ UNCHANGED <<config, originalImage, selectedImage, originalMimeType, isLoading>>

\* what uploadFunction does with the blob: it returns a value or a promise
\* already fulfilled ("uploaded"), returns a promise still pending
\* ("pending"), or throws or returns a rejected promise ("UploadError")
UploadOutcomes == {"uploaded", "pending", "UploadError"}

\* lines 207-209 and 197-199: the blob is ready and handed to uploadFunction;
\* uploadImage settles as what uploadFunction returns does
BlobReady(t, outcome) ==
  /\ UNCHANGED hist
  /\ TaskTurn /\ t \in calls /\ t.op = "upload" /\ t.pc = "blob"
  /\ IF outcome = "pending"
     THEN /\ calls' = (calls \ {t}) \cup {[t EXCEPT !.pc = "upload"]}
          /\ UNCHANGED ret
     ELSE /\ calls' = calls \ {t}
          /\ Settle("upload", outcome)
  /\ UNCHANGED <<config, originalImage, selectedImage, originalMimeType, isLoading,
                 canvas, nCalls>>

\* lines 206-210 and 196: toBlob delivers null, imageToBlob rejects and
\* uploadImage throws; uploadFunction is not called
BlobNull(t) ==
  /\ UNCHANGED hist
  /\ TaskTurn /\ t \in calls /\ t.op = "upload" /\ t.pc = "blob"
  /\ calls' = calls \ {t}
  /\ Settle("upload", "BlobFailed")
  /\ UNCHANGED <<config, originalImage, selectedImage, originalMimeType, isLoading,
                 canvas, nCalls>>

\* line 199: the caller settles the promise uploadFunction returned, in a
\* task of its own or in one in which it also makes calls; the reaction that
\* settles uploadImage is queued behind the microtasks queued so far
UploadResolved(t, outcome) ==
  /\ UNCHANGED hist
  /\ t \in calls /\ t.op = "upload" /\ t.pc = "upload"
  /\ calls' = (calls \ {t}) \cup
       {[id |-> t.id, op |-> "upload", pc |-> "settling", src |-> t.src,
         out |-> outcome, q |-> Behind(Microtasks)]}
  /\ UNCHANGED <<config, originalImage, selectedImage, originalMimeType, isLoading,
                 canvas, nCalls, ret>>

\* line 199: the reaction runs, uploadImage settles as that promise did
UploadSettled(t) ==
  /\ UNCHANGED hist
  /\ FirstMicrotask(t) /\ t.op = "upload" /\ t.pc = "settling"
  /\ calls' = calls \ {t}
  /\ Settle("upload", t.out)
  /\ UNCHANGED <<config, originalImage, selectedImage, originalMimeType, isLoading,
                 canvas, nCalls>>

\* The session with calls made at any time, also while others are in flight
\* and several in one task; every image that starts loading loads and every
\* upload succeeds, at once or later.
Next ==
  \/ SelectCall
  \/ \E t \in calls, f \in Files : FilePicked(t, f)
  \/ \E t \in calls : ReaderLoaded(t)
  \/ \E t \in calls : ImageDecoded(t)
  \/ \E t \in calls : CallStepFrame(t)
  \/ \E t \in calls : SelectScaled(t)
  \/ \E t \in calls : SelectCloneLoaded(t)
  \/ \E a \in ResizeArgs : ResizeCall(a)
  \/ \E t \in calls : ResizeResume(t)
  \/ \E t \in calls : ResizeReturn(t)
  \/ \E t \in calls : ResizeScaled(t)
  \/ \E a \in CropArgs : CropCall(a)
  \/ \E t \in calls : CropResume(t)
  \/ \E t \in calls : CropLoaded(t)
  \/ RestoreCall
  \/ \E t \in calls : RestoreLoaded(t)
  \/ UploadCall
  \/ \E t \in calls, o \in {"uploaded", "pending"} : BlobReady(t, o)
  \/ \E t \in calls : UploadResolved(t, "uploaded")
  \/ \E t \in calls : UploadSettled(t)

Spec == InitSession /\ [][Next]_vars

\* ---- the session used with every call awaited ----

\* no call is in flight: the caller has awaited every call it made
Awaited == calls = {}

\* the files the picker can deliver: those of Files and a square picture
\* one pixel higher than the maxHeight of Configs
FilesSeq ==
  Files \cup {[name |-> "d", size |-> 1, type |-> "image/png", w |-> 4, h |-> 4]}

\* the arguments resizeImage is called with: those of ResizeArgs, a width
\* alone in aspect mode that is larger than most pictures, one that leaves
\* less than a pixel of height, and the selected image's own size under
\* either aspect policy
ResizeArgsSeq ==
  ResizeArgs
    \cup {[width |-> Some(QInt[6]), height |-> None, mar |-> TRUE],
          [width |-> Some(QInt[1]), height |-> None, mar |-> TRUE]}
    \cup (IF selectedImage = NoImage THEN {}
          ELSE {[width |-> Some(QInt[selectedImage.w]),
                 height |-> Some(QInt[selectedImage.h]), mar |-> m] : m \in BOOLEAN})

\* the arguments cropImage is called with: those of CropArgs, origins left
\* of, above and beyond the picture, and the selected image's full frame
CropArgsSeq ==
  CropArgs
    \cup {[top |-> 0, left |-> -1, width |-> 2, height |-> 2],
          [top |-> -1, left |-> 0, width |-> 2, height |-> 2],
          [top |-> 0, left |-> 2, width |-> 1, height |-> 1],
          [top |-> 0, left |-> 5, width |-> 1, height |-> 1]}
    \cup (IF selectedImage = NoImage THEN {}
          ELSE {[top |-> 0, left |-> 0,
                 width |-> selectedImage.w, height |-> selectedImage.h]})

\* The session as the README uses it: a call is made only when the call
\* before it has settled.  Here the picker may also be closed without a file,
\* a file or an image may fail to load, and an upload may fail.
NextSeq ==
  \/ Awaited /\ SelectCall
  \/ \E t \in calls, f \in FilesSeq : FilePicked(t, f)
  \/ \E t \in calls : PickerDismissed(t)
  \/ \E t \in calls : ReaderLoaded(t)
  \/ \E t \in calls : ReadFailed(t)
  \/ \E t \in calls : ImageDecoded(t)
  \/ \E t \in calls : DecodeFailed(t)
  \/ \E t \in calls : CallStepFrame(t)
  \/ \E t \in calls : SelectScaled(t)
  \/ \E t \in calls : SelectCloneLoaded(t)
  \/ \E t \in calls : SelectCloneFailed(t)
  \/ Awaited /\ \E a \in ResizeArgsSeq : ResizeCall(a)
  \/ \E t \in calls : ResizeResume(t)
  \/ \E t \in calls : ResizeReturn(t)
  \/ \E t \in calls : ResizeScaled(t)
  \/ Awaited /\ \E a \in CropArgsSeq : CropCall(a)
  \/ \E t \in calls : CropResume(t)
  \/ \E t \in calls : CropLoaded(t)
  \/ \E t \in calls : CropDecodeFailed(t)
  \/ Awaited /\ RestoreCall
  \/ \E t \in calls : RestoreLoaded(t)
  \/ \E t \in calls : RestoreCloneFailed(t)
  \/ Awaited /\ UploadCall
  \/ \E t \in calls, o \in UploadOutcomes : BlobReady(t, o)
  \/ \E t \in calls : BlobNull(t)
  \/ \E t \in calls, o \in UploadOutcomes \ {"pending"} : UploadResolved(t, o)
  \/ \E t \in calls : UploadSettled(t)

SpecSeq == InitSession /\ [][NextSeq]_vars

\* the steps the event loop takes on its own: microtasks and callbacks
Resumptions ==
  \/ \E t \in calls, f \in FilesSeq : FilePicked(t, f)
  \/ \E t \in calls :
       \/ PickerDismissed(t) \/ ReaderLoaded(t) \/ ReadFailed(t)
       \/ ImageDecoded(t) \/ DecodeFailed(t) \/ CallStepFrame(t)
       \/ SelectScaled(t) \/ SelectCloneLoaded(t) \/ SelectCloneFailed(t)
       \/ ResizeResume(t) \/ ResizeReturn(t) \/ ResizeScaled(t)
       \/ CropResume(t) \/ CropLoaded(t) \/ CropDecodeFailed(t)
       \/ RestoreLoaded(t) \/ RestoreCloneFailed(t) \/ BlobNull(t)
       \/ \E o \in UploadOutcomes : BlobReady(t, o)
       \/ \E o \in UploadOutcomes \ {"pending"} : UploadResolved(t, o)
       \/ UploadSettled(t)

\* The same session under an event loop that runs every microtask and
\* delivers every event that is due.
SpecSeqFair == InitSession /\ [][NextSeq]_vars /\ WF_vars(Resumptions)

----------------------------------------------------------------------------
(* Claims about the scaler and the resolver. *)

\* C1 as stated: the raster stepDownImage returns has width exactly targetW
\* and height exactly targetH, for every target with targetW, targetH >= 1.
C1_ExactTarget ==
  (sd.pc = "done" /\ QLe[QInt[1], sd.tw] /\ QLe[QInt[1], sd.th])
    => (QInt[sd.out[1]] = sd.tw /\ QInt[sd.out[2]] = sd.th)

\* C1 amended: for every target with targetW, targetH >= 1 the raster
\* stepDownImage returns has width floor(targetW) and height floor(targetH),
\* which is exactly the target when the target is integral (also when the
\* target is larger than the source).
C1_TruncatedTarget ==
  (sd.pc = "done" /\ QLe[QInt[1], sd.tw] /\ QLe[QInt[1], sd.th])
    => /\ sd.out = canvasDims(<<sd.tw, sd.th>>)
       /\ (QIsInt[sd.tw] /\ QIsInt[sd.th])
            => (QInt[sd.out[1]] = sd.tw /\ QInt[sd.out[2]] = sd.th)

\* C1 witness: a run that returned a raster for an integral target wider than
\* the source and lower than half of it
C1_Witness ==
  /\ sd.pc = "done"
  /\ QIsInt[sd.tw] /\ QIsInt[sd.th]
  /\ QLt[QInt[sd.iw], sd.tw] /\ QLt[QMul[QInt[2], sd.th], QInt[sd.ih]]
  /\ QInt[sd.out[1]] = sd.tw /\ QInt[sd.out[2]] = sd.th

\* C2: stepDownImage terminates: for every source size and every positive
\* target, integral or fractional, the stepping reaches its final state, the
\* promise resolved with the result, after finitely many steps and schedules
\* no further step.  (A run whose canvas comes to an empty side throws in the
\* frame and never gets there.)
C2_ReachesFinalState ==
  (QLt[Zero, sd.tw] /\ QLt[Zero, sd.th]) => <>[](sd.pc = "done")

\* C3: the dimensions resizeImageIfNeeded computes never exceed a configured
\* maxWidth / maxHeight, for either aspect policy.
C3_WithinLimits ==
  rs.pc = "out" =>
    /\ rs.maxW # 0 => QLe[rs.d[1], QInt[rs.maxW]]
    /\ rs.maxH # 0 => QLe[rs.d[2], QInt[rs.maxH]]

\* C3 witness: aspect mode, both limits configured, the request exceeded
\* maxWidth and the height the width clamp left still exceeded maxHeight
C3_Witness ==
  /\ rs.pc = "out" /\ rs.mar /\ rs.maxW # 0 /\ rs.maxH # 0
  /\ QLt[QInt[rs.maxW], requestedDims(rs.iw, rs.ih, rs.tw, rs.th, rs.mar)[1]]
  /\ QLt[QInt[rs.maxH],
         clampWidth(requestedDims(rs.iw, rs.ih, rs.tw, rs.th, rs.mar),
                    Q[rs.iw, rs.ih], rs.mar, rs.maxW)[2]]
  /\ rs.d[2] = QInt[rs.maxH]

----------------------------------------------------------------------------
(* Claims about the session. *)

BothUndefined == {a \in ResizeArgs : a.width = None /\ a.height = None}
InFlight(ops) == {t \in calls : t.op \in ops}

\* C4: after a successful selectImage, a restoreOriginalImage called after
\* nothing but resizeImage and cropImage calls sets selected to the image
\* selected held when that selectImage returned.
C4_RestoreYieldsLoaded ==
  [][\A t \in calls :
       (RestoreLoaded(t) /\ hist.since = "restoring") => selectedImage' = hist.loaded]_vars

\* C5: when the picker delivers a file larger than the configured maxFileSize,
\* selectImage throws FileTooLarge in that very step, starts no read or decode
\* of the file, and writes neither selected nor original; no call ever reads
\* or decodes a file larger than the limit.
C5_TooLargeRejected ==
  /\ [](\A t \in calls :
          (t.op = "select" /\ t.pc # "pick" /\ maxFileSize # 0)
            => t.file.size <= maxFileSize)
  /\ [][\A t \in calls, f \in Files :
          (FilePicked(t, f) /\ maxFileSize # 0 /\ f.size > maxFileSize)
            => /\ ret' = [op |-> "select", result |-> "FileTooLarge"]
               /\ calls' = calls \ {t}
               /\ selectedImage' = selectedImage
               /\ originalImage' = originalImage]_vars

\* C5 witness: a session that held an image has rejected too large a file
C5_Witness ==
  /\ ret = [op |-> "select", result |-> "FileTooLarge"]
  /\ selectedImage # NoImage /\ originalImage # NoImage
  /\ maxFileSize # 0

\* C6 as stated: resizeImage with width and height both undefined throws
\* InvalidArguments in every session state and leaves selected and original
\* unchanged.
C6_AlwaysInvalidArguments ==
  [][\A a \in BothUndefined :
       ResizeCall(a)
         => /\ ret' = [op |-> "resize", result |-> "InvalidArguments"]
            /\ selectedImage' = selectedImage
            /\ originalImage' = originalImage]_vars

\* C6 amended: resizeImage with width and height both undefined throws
\* InvalidArguments, for either value of maintainAspectRatio, when an image
\* is selected and the session is not loading; with no image selected or
\* while loading it returns null instead.  In every case it starts nothing
\* and leaves selected and original unchanged.
C6_InvalidArgumentsWhenReady ==
  [][\A a \in BothUndefined :
       ResizeCall(a)
         => /\ ret' = [op |-> "resize",
                       result |-> IF selectedImage # NoImage /\ ~isLoading
                                  THEN "InvalidArguments" ELSE "null"]
            /\ calls' = calls
            /\ selectedImage' = selectedImage
            /\ originalImage' = originalImage]_vars

\* C6 witness: the call threw InvalidArguments on a session with an image
C6_Witness ==
  /\ ret = [op |-> "resize", result |-> "InvalidArguments"]
  /\ selectedImage # NoImage /\ ~isLoading

\* C7: selected and original never derive from different files.
C7_SameSourceFile ==
  (selectedImage # NoImage /\ originalImage # NoImage)
    => selectedImage.file = originalImage.file

\* C8: while _isLoading is true a resizeImage call returns null and a
\* cropImage call throws, at once; the call is not queued (no call is in
\* flight for it afterwards) and it changes neither selected nor original.
C8_RejectedWhileLoading ==
  [][/\ \A a \in ResizeArgs :
          (isLoading /\ ResizeCall(a))
            => /\ ret' = [op |-> "resize", result |-> "null"]
               /\ calls' = calls
               /\ selectedImage' = selectedImage /\ originalImage' = originalImage
     /\ \A a \in CropArgs :
          (isLoading /\ CropCall(a))
            => /\ ret'.op = "crop" /\ ret'.result \in {"NoImageSelected", "StillLoading"}
               /\ calls' = calls
               /\ selectedImage' = selectedImage /\ originalImage' = originalImage]_vars

\* C8 witness: a resizeImage with a target was turned away while an image was
\* selected and a selectImage was loading
C8_Witness ==
  /\ ret = [op |-> "resize", result |-> "null"]
  /\ isLoading /\ selectedImage # NoImage
  /\ InFlight({"resize", "crop"}) = {}

\* C9: at most one mutating call is in flight at any time.
C9_OneMutatingCall == Cardinality(InFlight(MutatingOps)) <= 1

\* C10: _isLoading is true exactly while some selectImage call is in flight.
C10_LoadingIffSelecting == isLoading <=> (InFlight({"select"}) # {})

\* C11: no task of a resizeImage or cropImage call writes originalImage: not
\* the call itself (whether it starts work, returns null or throws), not its
\* resumption after an await, not a frame of its scaler, not the callback that
\* stores its result or throws because the result did not load.
C11_EditsKeepOriginal ==
  [][/\ \A a \in ResizeArgsSeq : ResizeCall(a) => originalImage' = originalImage
     /\ \A a \in CropArgsSeq : CropCall(a) => originalImage' = originalImage
     /\ \A t \in InFlight({"resize", "crop"}) :
          (\/ ResizeResume(t) \/ ResizeReturn(t) \/ CallStepFrame(t) \/ ResizeScaled(t)
           \/ CropResume(t) \/ CropLoaded(t) \/ CropDecodeFailed(t))
            => originalImage' = originalImage]_vars

\* C11 witness: a resizeImage has stored a scaled image as selected and the
\* original is still the unscaled picture
C11_Witness ==
  /\ ret = [op |-> "resize", result |-> "src"]
  /\ originalImage # NoImage /\ selectedImage # NoImage
  /\ selectedImage.edits # <<>>
  /\ selectedImage.edits[Len(selectedImage.edits)][1] = "scale"
  /\ originalImage.edits = <<>>

----------------------------------------------------------------------------
(* Claims about the session with every call awaited. *)

\* C12: selectedImage and originalImage are replaced only when the whole
\* pipeline of a call has succeeded: every task that changes one of them is
\* the task in which a call returns its result.  So a call whose decode,
\* scale or clone fails leaves both as they were when it was made.
C12_ReplacedOnlyOnSuccess ==
  [][(selectedImage' # selectedImage \/ originalImage' # originalImage)
       => /\ \E t \in calls : calls' = calls \ {t}
          /\ ret'.result \in {"ok", "src"}]_vars

\* a crop origin outside the picture: left of it, above it, or at or beyond
\* its right or bottom edge
OutOfRange(a, sel) ==
  a.left < 0 \/ a.top < 0 \/ a.left >= sel.w \/ a.top >= sel.h

\* C13: cropImage with an origin outside the selected picture throws before
\* it reads any pixels (InvalidArguments; the IndexSizeError the canvas raises
\* for an empty region is counted as a rejection too): it starts no image and
\* leaves selected unchanged, so no raster is made of a region outside the
\* picture.
C13_OutOfRangeRejected ==
  [][\A t \in InFlight({"crop"}) :
       (CropResume(t) /\ OutOfRange(t.a, selectedImage))
         => /\ ret'.op = "crop" /\ ret'.result \in {"InvalidArguments", "IndexSizeError"}
            /\ calls' = calls \ {t}
            /\ selectedImage' = selectedImage]_vars

\* C14: with an image selected, not loading, an origin inside the picture and
\* width, height >= 1, cropImage makes a raster of size
\* (min(width, w - left), min(height, h - top)), w x h being the size of
\* selected, and when that raster has loaded it replaces selected.
C14_CropSize ==
  [][/\ \A a \in CropArgsSeq :
          (CropCall(a) /\ selectedImage # NoImage /\ ~isLoading)
            => \E t \in calls' \ calls : t.op = "crop" /\ t.a = a
     /\ \A t \in InFlight({"crop"}) :
          (CropResume(t) /\ ~OutOfRange(t.a, selectedImage)
             /\ t.a.width >= 1 /\ t.a.height >= 1)
            => \E u \in calls' \ calls :
                 /\ u.op = "crop" /\ u.id = t.id
                 /\ u.src.w = Min(t.a.width, selectedImage.w - t.a.left)
                 /\ u.src.h = Min(t.a.height, selectedImage.h - t.a.top)
                 /\ u.src.file = selectedImage.file
     /\ \A t \in InFlight({"crop"}) :
          CropLoaded(t)
            => /\ selectedImage' = t.src
               /\ ret' = [op |-> "crop", result |-> "src"]]_vars

\* C14 witness: a crop from origin (1, 1) that asked for more than the picture
\* holds has replaced selected with the clamped region
C14_Witness ==
  /\ ret = [op |-> "crop", result |-> "src"]
  /\ selectedImage # NoImage /\ selectedImage.edits # <<>>
  /\ LET ed == selectedImage.edits[Len(selectedImage.edits)]
     IN  /\ ed[1] = "crop" /\ ed[2] = 1 /\ ed[3] = 1
         /\ selectedImage.w = ed[4] /\ selectedImage.h = ed[5]
         /\ selectedImage.w < 9 /\ selectedImage.h < 9
         /\ selectedImage.w >= 1 /\ selectedImage.h >= 1

\* the crop of the whole frame of sel
FullFrame(a, sel) ==
  a.left = 0 /\ a.top = 0 /\ a.width = sel.w /\ a.height = sel.h

\* C15 as stated: cropImage of the whole frame makes a raster with the
\* dimensions and the pixels of selected.
C15_FullFrameIdentity ==
  [][\A t \in InFlight({"crop"}) :
       (CropResume(t) /\ FullFrame(t.a, selectedImage))
         => \E u \in calls' \ calls :
              /\ u.src.w = selectedImage.w /\ u.src.h = selectedImage.h
              /\ u.src.file = selectedImage.file
              /\ u.src.edits = selectedImage.edits]_vars

\* C15 amended: cropImage of the whole frame makes a raster with the
\* dimensions of selected whose pixels are those of selected re-encoded in
\* originalMimeType (image/jpeg if there is none, image/png if the canvas
\* cannot encode it): the same pixels if that format is lossless; if it is
\* image/jpeg or image/webp, the same pixels or those the encoder made of
\* them.
C15_FullFrameReencoded ==
  [][\A t \in InFlight({"crop"}) :
       (CropResume(t) /\ FullFrame(t.a, selectedImage))
         => \E u \in calls' \ calls :
              /\ u.src.w = selectedImage.w /\ u.src.h = selectedImage.h
              /\ u.src.file = selectedImage.file
              /\ IF originalMimeType \in {NoMime, "image/jpeg", "image/webp"}
                 THEN /\ u.src.fmt = encodeMime(originalMimeType)
                      /\ u.src.edits \in
                           {selectedImage.edits,
                            Append(selectedImage.edits,
                                   <<"crop", 0, 0, selectedImage.w, selectedImage.h>>)}
                 ELSE /\ u.src.fmt \in {originalMimeType, "image/png"}
                      /\ u.src.edits = selectedImage.edits]_vars

\* C15 witness: after the whole-frame crop of a png picture selected has the
\* size and the pixels of the original
C15_Witness ==
  /\ ret = [op |-> "crop", result |-> "src"]
  /\ originalMimeType = "image/png"
  /\ selectedImage # NoImage /\ originalImage # NoImage
  /\ selectedImage.w = originalImage.w /\ selectedImage.h = originalImage.h
  /\ selectedImage.edits = originalImage.edits

\* resizeImage asked for the size selected already has
SameSize(a, sel) ==
  a.width = Some(QInt[sel.w]) /\ a.height = Some(QInt[sel.h])

\* C16: resizeImage with width and height equal to the size of selected does
\* nothing, under either aspect policy and any maxWidth / maxHeight: it starts
\* no scaling, encodes nothing and leaves selected the very image it was.
C16_SameSizeNoOp ==
  [][/\ \A a \in ResizeArgsSeq :
          (ResizeCall(a) /\ selectedImage # NoImage /\ ~isLoading
             /\ SameSize(a, selectedImage))
            => /\ selectedImage' = selectedImage
               /\ \E t \in calls' \ calls : t.pc = "resume" /\ t.src = selectedImage
     /\ \A t \in InFlight({"resize"}) :
          /\ ResizeResume(t)
               => /\ selectedImage' = selectedImage
                  /\ \E u \in calls' \ calls : u.id = t.id /\ u.pc = "redrawn"
          /\ ResizeReturn(t)
               => /\ selectedImage' = selectedImage
                  /\ calls' = calls \ {t}
                  /\ ret' = [op |-> "resize", result |-> "src"]]_vars

----------------------------------------------------------------------------
(* Claims about resizeImageIfNeeded as a whole. *)

\* C17: with maintainAspectRatio true the image resizeImageIfNeeded resolves
\* to has the source's width : height ratio up to one pixel of rounding:
\* there is a size with that ratio from which each of its sides is less than
\* one pixel away, with or without maxWidth / maxHeight.  (The sizes with the
\* ratio are a line through the origin; it passes within a pixel of the
\* image's size when the corners (w - 1, h + 1) and (w + 1, h - 1) lie on
\* either side of it.)
C17_AspectKept ==
  (rs.pc = "out" /\ rs.mar /\ sd.pc = "done")
    => /\ (sd.out[1] - 1) * rs.ih < (sd.out[2] + 1) * rs.iw
       /\ (sd.out[2] - 1) * rs.iw < (sd.out[1] + 1) * rs.ih

\* C17 witness: an aspect-mode request clamped by maxHeight was scaled to a
\* size whose ratio is the source's only up to rounding
C17_Witness ==
  /\ rs.pc = "out" /\ rs.mar /\ rs.scale /\ sd.pc = "done"
  /\ rs.maxH # 0 /\ rs.d[2] = QInt[rs.maxH]
  /\ QLt[QInt[rs.maxH], requestedDims(rs.iw, rs.ih, rs.tw, rs.th, rs.mar)[2]]
  /\ sd.out[1] * rs.ih # sd.out[2] * rs.iw

----------------------------------------------------------------------------
(* More claims about the session with every call awaited. *)

\* resizeImage given exactly one of width and height
OneSide(a) == (a.width = None) # (a.height = None)

\* the size an aspect-mode request with one side resolves to, by the rule
\* "width alone: height = width / aspect; height alone: width = height * aspect"
oneSideDims(a, sel) ==
  LET aspectRatio == Q[sel.w, sel.h]
  IN  IF Truthy(a.width) THEN <<a.width[1], QDiv[a.width[1], aspectRatio]>>
      ELSE IF Truthy(a.height) THEN <<QMul[a.height[1], aspectRatio], a.height[1]>>
      ELSE <<QInt[sel.w], QInt[sel.h]>>

\* C18: with maintainAspectRatio true and no maxWidth / maxHeight, resizeImage
\* given only a width resolves to (width, width / aspect) and given only a
\* height to (height * aspect, height), for targets smaller and larger than
\* the picture: it scales selected to that size, or returns selected as it is
\* when that size is within a pixel of its own.
C18_OneSideKeepsAspect ==
  [][\A a \in ResizeArgsSeq :
       (ResizeCall(a) /\ selectedImage # NoImage /\ ~isLoading
          /\ a.mar /\ OneSide(a) /\ maxWidth = 0 /\ maxHeight = 0)
         => IF needsScale(selectedImage.w, selectedImage.h, oneSideDims(a, selectedImage))
            THEN \E t \in calls' \ calls :
                   t.pc = "raf" /\ t.sc.tgt = oneSideDims(a, selectedImage)
            ELSE /\ \E t \in calls' \ calls : t.pc = "resume" /\ t.src = selectedImage
                 /\ selectedImage' = selectedImage]_vars

\* C19: restoreOriginalImage called while _isLoading is true is turned away:
\* it returns or throws at once, starts no clone and leaves selected alone.
C19_RestoreRejectedWhileLoading ==
  [][(RestoreCall /\ isLoading)
       => /\ ret'.op = "restore"
          /\ calls' = calls
          /\ selectedImage' = selectedImage]_vars

----------------------------------------------------------------------------
(* A claim about one run of the scaler. *)

\* the run of stepDownImage from 4000 x 3000 to 100 x 100
IsExample ==
  sd.pc # "idle" /\ [iw |-> sd.iw, ih |-> sd.ih, tw |-> sd.tw, th |-> sd.th] = ExampleRun

Size(w, h) == <<QInt[w], QInt[h]>>

\* the run is at one of the sizes of chain, at the last of them once the
\* stepping has ended
OnChain(chain) ==
  IsExample
    => /\ \E i \in 1..Len(chain) : sd.cur = chain[i]
       /\ sd.pc \in {"encode", "done"} => sd.cur = chain[Len(chain)]

\* a step of the run that changes the size goes from one size of chain to
\* the next
AlongChain(chain) ==
  (IsExample /\ sd'.cur # sd.cur)
    => \E i \in 1..(Len(chain) - 1) : sd.cur = chain[i] /\ sd'.cur = chain[i + 1]

ChainOfSteps ==
  <<Size(4000, 3000), Size(2000, 1500), Size(1000, 750), Size(500, 375),
    Size(250, 187), Size(125, 100), Size(100, 100)>>

\* C20 as stated: from 4000 x 3000 the scaler passes through 2000 x 1500,
\* 1000 x 750, 500 x 375 and 250 x 188, and the next step is the final snap
\* to 100 x 100.
C20_ExampleAsStated ==
  /\ []OnChain(<<Size(4000, 3000), Size(2000, 1500), Size(1000, 750),
                 Size(500, 375), Size(250, 188), Size(100, 100)>>)
  /\ [][AlongChain(<<Size(4000, 3000), Size(2000, 1500), Size(1000, 750),
                     Size(500, 375), Size(250, 188), Size(100, 100)>>)]_vars

\* C20 amended: from 4000 x 3000 the scaler passes through 2000 x 1500,
\* 1000 x 750, 500 x 375, 250 x 187 and 125 x 100, and the step after that
\* is the final snap to 100 x 100.
C20_ExampleSteps ==
  []OnChain(ChainOfSteps) /\ [][AlongChain(ChainOfSteps)]_vars

\* C20 witness: the run has ended with a 100 x 100 image
C20_Witness ==
  IsExample /\ sd.pc = "done" /\ sd.out = <<100, 100>>

----------------------------------------------------------------------------
(* More claims about the scaler. *)

\* lines 305-307: the larger of the two ratios of a size to the target
ratioOf(cur, tw, th) == QMax[QDiv[cur[1], tw], QDiv[cur[2], th]]

\* the larger side of a size
maxSide(cur) == QMax[cur[1], cur[2]]

\* C21 as stated: every step of the scaler taken while the size exceeds the
\* target in some direction strictly decreases max(width, height).
C21_MaxSideDecreases ==
  [][(StepFrame /\ (QLt[sd.tw, sd.cur[1]] \/ QLt[sd.th, sd.cur[2]]))
       => QLt[maxSide(sd'.cur), maxSide(sd.cur)]]_vars

\* C21 amended: a step taken while the larger ratio of the size to the target
\* exceeds 2 strictly decreases that ratio; a step taken at 2 or below sets
\* the size to the target and is the last.
C21_RatioDecreases ==
  [][StepFrame
       => IF QLt[QInt[2], ratioOf(sd.cur, sd.tw, sd.th)]
          THEN QLt[ratioOf(sd'.cur, sd.tw, sd.th), ratioOf(sd.cur, sd.tw, sd.th)]
          ELSE sd'.cur = <<sd.tw, sd.th>> /\ sd'.pc \in {"encode", "threw"}]_vars

\* C21 witness: a run that started above ratio 2 has reached a target that
\* shrinks one side only; its larger side is what it was at the start
C21_Witness ==
  /\ sd.pc \in {"encode", "done"}
  /\ QLt[QInt[2], ratioOf(<<QInt[sd.iw], QInt[sd.ih]>>, sd.tw, sd.th)]
  /\ sd.cur = <<sd.tw, sd.th>>
  /\ maxSide(sd.cur) = maxSide(<<QInt[sd.iw], QInt[sd.ih]>>)
  /\ (sd.tw = QInt[sd.iw]) # (sd.th = QInt[sd.ih])

\* C22 as stated: no step makes the raster less than half as wide or less
\* than half as high as it was.
C22_AtMostHalved ==
  [][StepFrame => 2 * sd'.cv[1] >= sd.cv[1] /\ 2 * sd'.cv[2] >= sd.cv[2]]_vars

\* C22 amended: no step makes a side of the raster smaller than half the
\* side rounded down: 2 * w' >= w - 1 and 2 * h' >= h - 1.
C22_AtMostHalvedRoundedDown ==
  [][StepFrame
       => /\ 2 * sd'.cv[1] >= sd.cv[1] - 1
          /\ 2 * sd'.cv[2] >= sd.cv[2] - 1]_vars

\* C22 witness: the first step has halved an odd width, rounding down
C22_Witness ==
  /\ sd.pc # "idle"
  /\ sd.iw % 2 = 1 /\ sd.iw >= 3
  /\ sd.cv[1] = sd.iw \div 2
  /\ 2 * sd.cv[1] < sd.iw

\* C23: the scaler only shrinks: no raster it makes is wider or higher than
\* the source, and a source that is within the target in both directions is
\* returned at its own size.
C23_OnlyShrinks ==
  sd.pc # "idle"
    => /\ sd.cv[1] <= sd.iw /\ sd.cv[2] <= sd.ih
       /\ (sd.pc = "done" /\ QLe[QInt[sd.iw], sd.tw] /\ QLe[QInt[sd.ih], sd.th])
            => sd.out = <<sd.iw, sd.ih>>

----------------------------------------------------------------------------
(* More claims about the resolver. *)

\* the number an option gives, or the side of img; `absent` tells when the
\* option counts as not given
sideAsked(o, side, absent) == IF absent THEN QInt[side] ELSE o[1]

\* a number held to a limit (0: no limit)
heldTo(x, limit) == IF limit # 0 /\ QLt[QInt[limit], x] THEN QInt[limit] ELSE x

\* C24 as stated: with maintainAspectRatio false the width is the width
\* given (the source's only when none is given) held to maxWidth, the height
\* likewise, each independent of the other, for every given value, 0 too.
C24_IndependentAsStated ==
  (rs.pc = "out" /\ ~rs.mar)
    => /\ rs.d[1] = heldTo(sideAsked(rs.tw, rs.iw, rs.tw = None), rs.maxW)
       /\ rs.d[2] = heldTo(sideAsked(rs.th, rs.ih, rs.th = None), rs.maxH)

\* C24 amended: with maintainAspectRatio false the width is the width given
\* (the source's when none or 0 is given) held to maxWidth, the height
\* likewise, each independent of the other.
C24_Independent ==
  (rs.pc = "out" /\ ~rs.mar)
    => /\ rs.d[1] = heldTo(sideAsked(rs.tw, rs.iw, ~Truthy(rs.tw)), rs.maxW)
       /\ rs.d[2] = heldTo(sideAsked(rs.th, rs.ih, ~Truthy(rs.th)), rs.maxH)

\* C24 witness: a width of 0 was given and resolved to the source's width,
\* which maxWidth cut, while the height given stayed as it was
C24_Witness ==
  /\ rs.pc = "out" /\ ~rs.mar
  /\ rs.tw = Some(QInt[0]) /\ rs.maxW # 0 /\ rs.maxW < rs.iw
  /\ rs.d[1] = QInt[rs.maxW]
  /\ rs.th # None /\ Truthy(rs.th) /\ rs.d[2] = rs.th[1] /\ rs.th[1] # QInt[rs.ih]

----------------------------------------------------------------------------
(* Claims about what the session stores. *)

\* C25: loading is transient: whenever _isLoading is true it is false again
\* later, whatever becomes of the picker, the file and its image.
C25_LoadingTransient == isLoading ~> ~isLoading

\* a raster with an integer width and height of at least one pixel
IsRaster(img) == img.w \in Nat /\ img.h \in Nat /\ img.w >= 1 /\ img.h >= 1

\* C26: every image stored in selectedImage or originalImage has an integer
\* width >= 1 and an integer height >= 1.
C26_StoredRasters ==
  /\ selectedImage # NoImage => IsRaster(selectedImage)
  /\ originalImage # NoImage => IsRaster(originalImage)

\* C26 witness: a resizeImage in aspect mode resolved to less than a pixel of
\* height; its scaler threw on a canvas of height 0 and selected is still the
\* raster it was
C26_Witness ==
  /\ selectedImage # NoImage /\ IsRaster(selectedImage)
  /\ \E t \in calls :
       /\ t.op = "resize" /\ t.pc = "threw"
       /\ t.sc.cv[2] = 0 /\ QLt[t.sc.tgt[2], QInt[1]]
       /\ t.sc.img = selectedImage

\* C27: on a session with maxWidth and/or maxHeight the selected image and
\* the original are never wider than maxWidth nor higher than maxHeight.
C27_StoredWithinLimits ==
  \A img \in {selectedImage, originalImage} \ {NoImage} :
    /\ maxWidth # 0 => img.w <= maxWidth
    /\ maxHeight # 0 => img.h <= maxHeight

----------------------------------------------------------------------------
(* Claims about calls that overlap. *)

\* C28: whenever a resizeImage or cropImage call writes selectedImage, the
\* image it writes was computed from the image selectedImage holds just
\* before the write: the image resizeImage scaled or cropImage measured is
\* still the selected one.
C28_NoLostUpdate ==
  [][\A t \in InFlight({"resize", "crop"}) :
       /\ ResizeResume(t) => t.src = selectedImage
       /\ ResizeScaled(t) => t.sc.img = selectedImage
       /\ CropLoaded(t) => t.from = selectedImage]_vars

\* C29: when cropImage reads the crop region back, the session's canvas
\* holds selectedImage, the image the crop size was measured on, at its size.
C29_CropReadsSelected ==
  [][\A t \in InFlight({"crop"}) :
       CropResume(t)
         => /\ canvas.img = selectedImage
            /\ canvas.w = selectedImage.w /\ canvas.h = selectedImage.h]_vars

\* line 239: the mime type of the file an image was decoded from
FileType(img) == (CHOOSE f \in FilesSeq : f.name = img.file).type

\* C30: whenever no selectImage call is in flight and an image is loaded,
\* originalMimeType is the mime type of the file that selectedImage and
\* originalImage were decoded from.
C30_MimeOfLoadedFile ==
  (/\ InFlight({"select"}) = {}
   /\ selectedImage # NoImage /\ originalImage # NoImage
   /\ selectedImage.file = originalImage.file)
    => originalMimeType = FileType(selectedImage)

====
